---------------------------- MODULE Spec2Model ----------------------------
(***************************************************************************)
(* A model of generate/vsop/vsop.c: the VSOP87 model loader, the           *)
(* truncation engine, the compact ("TRUNC_VSOP87") writer and reader, and  *)
(* the position / velocity entry points.                                   *)
(*                                                                         *)
(* Numbers.  Amplitudes and the caller's amplitude threshold are integers  *)
(* counted in units of the 11th decimal (the precision of the VSOP87 data  *)
(* files and of the "%18.11lf" the writer prints), times are whole         *)
(* millennia expressed in days, and the distance scalings of               *)
(* ModelTypeScaling are held in millionths (MICRO), so every comparison    *)
(* the code makes in double precision is made here exactly.                *)
(***************************************************************************)
EXTENDS Integers, Sequences, FiniteSets, TLC

(***************************************************************************)
(* vsop.h: capacities and enumerations.                                    *)
(***************************************************************************)
VSOP_MIN_COORDS == 3
VSOP_MAX_COORDS == 6
VSOP_MAX_SERIES == 6

VSOP_INVALID_VERSION   == -1
VSOP_ELLIPTIC_J2000    == 0
VSOP_HELIO_RECT_J2000  == 1
VSOP_HELIO_SPHER_J2000 == 2
VSOP_HELIO_RECT_DATE   == 3
VSOP_HELIO_SPHER_DATE  == 4
VSOP_BARY_RECT_J2000   == 5

VSOP_INVALID_BODY == -1
VSOP_MERCURY == 0
VSOP_VENUS   == 1
VSOP_EARTH   == 2
VSOP_EMB     == 3
VSOP_MARS    == 4
VSOP_JUPITER == 5
VSOP_SATURN  == 6
VSOP_URANUS  == 7
VSOP_NEPTUNE == 8
VSOP_SUN     == 9

DAYS_PER_MILLENNIUM == 365250

\* Denominator of the fixed-point scalings of ModelTypeScaling.
MICRO == 1000000

NULL == 0

CoordIdx  == 0 .. (VSOP_MAX_COORDS - 1)
SeriesIdx == 0 .. (VSOP_MAX_SERIES - 1)

Abs(x) == IF x < 0 THEN -x ELSE x

(***************************************************************************)
(* vsop_series_t, vsop_formula_t, vsop_model_t after memset(0).            *)
(***************************************************************************)
ZeroSeries == [nterms_total |-> 0, nterms_calc |-> 0, term |-> NULL]

ZeroFormula ==
    [nseries_total |-> 0, nseries_calc |-> 0,
     series |-> [s \in SeriesIdx |-> ZeroSeries]]

VsopInit ==
    [version |-> VSOP_INVALID_VERSION,
     body    |-> VSOP_INVALID_BODY,
     ncoords |-> 0,
     formula |-> [k \in CoordIdx |-> ZeroFormula]]

BodyTable ==
    << [name |-> "MERCURY ", body |-> VSOP_MERCURY],
       [name |-> "VENUS   ", body |-> VSOP_VENUS],
       [name |-> "EARTH   ", body |-> VSOP_EARTH],
       [name |-> "EMB     ", body |-> VSOP_EMB],
       [name |-> "MARS    ", body |-> VSOP_MARS],
       [name |-> "JUPITER ", body |-> VSOP_JUPITER],
       [name |-> "SATURN  ", body |-> VSOP_SATURN],
       [name |-> "URANUS  ", body |-> VSOP_URANUS],
       [name |-> "NEPTUNE ", body |-> VSOP_NEPTUNE],
       [name |-> "SUN     ", body |-> VSOP_SUN] >>

\* The loop over BodyTable: the body of the first entry whose name matches.
LookupBody(name) ==
    LET hits == {b \in 1 .. Len(BodyTable) : BodyTable[b].name = name}
    IN  IF hits = {} THEN VSOP_INVALID_BODY
        ELSE BodyTable[CHOOSE b \in hits : \A c \in hits : b <= c].body

(***************************************************************************)
(* The heap.  A heap maps every block id to [live, data]: whether the      *)
(* block is allocated, and its contents (a sequence of amplitudes).  A     *)
(* pointer is a block id or NULL.  A call's effect on the heap is the      *)
(* record [heap, allocs, frees, bad]: allocs are the blocks the call       *)
(* allocated; frees the non-null pointers it passed to free(), in order;   *)
(* bad says that it passed free() a pointer that was not live.             *)
(***************************************************************************)
\* The most blocks a caller leaves live when it re-initialises or reloads a
\* model without releasing it (the blocks are leaked).
MaxLeak == 1

BlockIds == 1 .. (VSOP_MAX_COORDS * VSOP_MAX_SERIES + MaxLeak)

NoBlock == [live |-> FALSE, data |-> << >>]

EmptyHeap == [p \in BlockIds |-> NoBlock]

Live(h) == {p \in BlockIds : h[p].live}

FreshBlock(h) ==
    CHOOSE p \in BlockIds : ~h[p].live /\ \A q \in BlockIds : q < p => h[q].live

\* calloc(n, sizeof(vsop_term_t)): NULL when the allocator fails (or is asked
\* for a negative count, which size_t turns into an impossible size).
Calloc(h, n, fails) ==
    IF fails \/ n < 0
    THEN [heap |-> h, ptr |-> NULL]
    ELSE LET p == FreshBlock(h)
         IN  [heap |-> [h EXCEPT ![p] = [live |-> TRUE, data |-> [i \in 1 .. n |-> 0]]],
              ptr  |-> p]

\* free(p)
Free(e, p) ==
    IF p = NULL THEN e
    ELSE [heap   |-> [e.heap EXCEPT ![p] = NoBlock],
          allocs |-> e.allocs,
          frees  |-> Append(e.frees, p),
          bad    |-> e.bad \/ ~e.heap[p].live]

SlotSeq ==
    [n \in 1 .. (VSOP_MAX_COORDS * VSOP_MAX_SERIES) |->
        << (n - 1) \div VSOP_MAX_SERIES, (n - 1) % VSOP_MAX_SERIES >>]

RECURSIVE FreeSlots(_, _, _)
FreeSlots(model, e, n) ==
    IF n > Len(SlotSeq) THEN e
    ELSE FreeSlots(model,
                   Free(e, model.formula[SlotSeq[n][1]].series[SlotSeq[n][2]].term),
                   n + 1)

\* VsopFreeModel without the closing VsopInit (line 209).
FreeWithoutInit(model, e) == [model |-> model, eff |-> FreeSlots(model, e, 1)]

\* VsopFreeModel without its loop of free() calls.
InitWithoutFree(model, e) == [model |-> VsopInit, eff |-> e]

\* VsopFreeModel: free every slot's term pointer, then VsopInit.
VsopFreeModel(model, e) ==
    [model |-> VsopInit, eff |-> FreeSlots(model, e, 1)]

NoEffect(h) == [heap |-> h, allocs |-> {}, frees |-> << >>, bad |-> FALSE]


(***************************************************************************)
(* Standard VSOP87 text files.  A file is [open, lines]: whether fopen()   *)
(* can open it, and its lines; a line is a header record, a data record,   *)
(* or a line that is neither:                                              *)
(*   [kind |-> "hdr", version, body, power, nterms]                        *)
(*       version: the digit at column 17, body: the 8 characters at column *)
(*       22, power: the digit at column 59, nterms: the integer at 60      *)
(*   [kind |-> "dat", A]     a data record whose amplitude field is A      *)
(*   [kind |-> "junk"]       too short, or no marker / unparsable fields   *)
(* NoFile is a path fopen() cannot open.                                   *)
(***************************************************************************)
NoFile == [open |-> FALSE, lines |-> << >>]

File(lines) == [open |-> TRUE, lines |-> lines]

Hdr(v, b, p, n) ==
    [kind |-> "hdr", version |-> v, body |-> b, power |-> p, nterms |-> n]

Dat(a) == [kind |-> "dat", A |-> a]

Junk == [kind |-> "junk"]

\* The header test of the loader (length, marker, version digit, power
\* digit, term count).
HeaderOk(line) ==
    /\ line.kind = "hdr"
    /\ line.version >= 0 /\ line.version <= 5
    /\ line.power >= 0 /\ line.power <= 9
    /\ line.nterms >= 1

\* The data record test of the loader (length, three numeric fields).
DataOk(line) == line.kind = "dat"

ExpectedNcoords(version) == IF version = VSOP_ELLIPTIC_J2000 THEN 6 ELSE 3

\* The loader's locals and the model under construction.  formula = -1 is
\* the NULL formula pointer; series is the current series' slot <<k, s>>.
LoadStart(h) ==
    [model |-> VsopInit, heap |-> h, allocs |-> {}, error |-> FALSE,
     nterms |-> 0, termcount |-> 0, formula |-> -1, series |-> << 0, 0 >>,
     ncalloc |-> 0]

Fail(st) == [st EXCEPT !.error = TRUE]

\* Lines 87-108 without the test lnum == 1: every header sets version and body.
LoadEveryHeader(st, line, lnum) ==
    LET b == LookupBody(line.body)
    IN  [st EXCEPT !.model.version = line.version,
                   !.model.body = b,
                   !.error = (b = VSOP_INVALID_BODY)]

\* Lines 87-108: the first line's version and body.
LoadFirstHeader(st, line, lnum) ==
    IF lnum # 1 THEN st
    ELSE LET b == LookupBody(line.body)
         IN  [st EXCEPT !.model.version = line.version,
                        !.model.body = b,
                        !.error = (b = VSOP_INVALID_BODY)]

\* Lines 115-123: a power-0 header starts the next coordinate.
LoadNewCoord(st, power) ==
    IF power # 0 THEN st
    ELSE IF st.model.ncoords = VSOP_MAX_COORDS THEN Fail(st)
    ELSE [st EXCEPT !.formula = st.model.ncoords,
                    !.model.ncoords = @ + 1]

\* Line 131: the capacity test on the current formula's series.
SeriesFull(nseries_total) == nseries_total = VSOP_MAX_SERIES

\* Line 137 refusing only a power below the series count.
PowerBehind(nseries_total, power) == nseries_total > power

\* Line 137: the header's power is not the current formula's series count.
PowerMismatch(nseries_total, power) == nseries_total # power

\* Lines 125-151: the header opens the next series of the current formula.
LoadNewSeries(st, power, nterms, oomAt) ==
    IF st.formula = -1 THEN Fail(st)
    ELSE LET k == st.formula
             n == st.model.formula[k].nseries_total
         IN  IF SeriesFull(n) THEN Fail(st)
             ELSE IF PowerMismatch(n, power) THEN Fail(st)
             ELSE LET c == Calloc(st.heap, nterms, st.ncalloc + 1 = oomAt)
                      ser == [nterms_total |-> nterms, nterms_calc |-> nterms,
                              term |-> c.ptr]
                  IN  [st EXCEPT
                         !.model.formula[k].nseries_total = n + 1,
                         !.model.formula[k].nseries_calc = n + 1,
                         !.model.formula[k].series[n] = ser,
                         !.series = << k, n >>,
                         !.heap = c.heap,
                         !.allocs = IF c.ptr = NULL THEN @ ELSE @ \cup {c.ptr},
                         !.ncalloc = @ + 1,
                         !.nterms = nterms,
                         !.termcount = 0,
                         !.error = (c.ptr = NULL)]

\* Lines 73-153: a line read where a header record is expected.
LoadHeader(st, line, lnum, oomAt) ==
    IF ~HeaderOk(line) THEN Fail(st)
    ELSE LET s1 == LoadFirstHeader([st EXCEPT !.nterms = line.nterms], line, lnum)
         IN  IF s1.error THEN s1
             ELSE LET s2 == LoadNewCoord(s1, line.power)
                  IN  IF s2.error THEN s2
                      ELSE LoadNewSeries(s2, line.power, line.nterms, oomAt)

\* Lines 154-167: a line read where a data record is expected.
LoadData(st, line) ==
    IF ~DataOk(line) THEN Fail(st)
    ELSE LET p == st.model.formula[st.series[1]].series[st.series[2]].term
         IN  [st EXCEPT !.heap[p].data[st.termcount + 1] = line.A,
                        !.termcount = @ + 1]

\* One turn of the while loop at line 69.
LoadLine(st, line, lnum, oomAt) ==
    IF st.termcount = st.nterms
    THEN LoadHeader(st, line, lnum, oomAt)
    ELSE LoadData(st, line)

RECURSIVE LoadLines(_, _, _, _)
LoadLines(st, file, lnum, oomAt) ==
    IF st.error \/ lnum > Len(file) THEN st
    ELSE LoadLines(LoadLine(st, file[lnum], lnum, oomAt), file, lnum + 1, oomAt)

\* Lines 170-187 without the early-end test of lines 183-187.
FinalErrorNoCount(st) ==
    \/ st.model.version = VSOP_INVALID_VERSION
    \/ st.model.ncoords # ExpectedNcoords(st.model.version)

\* Lines 170-189: the checks after the last line.
LoadFinalError(st) ==
    \/ st.model.version = VSOP_INVALID_VERSION
    \/ st.model.ncoords # ExpectedNcoords(st.model.version)
    \/ st.termcount # st.nterms

\* Lines 191-198: on error the model is released.
LoadFinish(st, error) ==
    LET e == [heap |-> st.heap, allocs |-> st.allocs, frees |-> << >>,
              bad |-> FALSE]
    IN  IF error
        THEN LET f == VsopFreeModel(st.model, e)
             IN  [model |-> f.model, eff |-> f.eff, ret |-> 1]
        ELSE [model |-> st.model, eff |-> e, ret |-> 0]

\* VsopLoadModel(model, inFileName) on heap h; oomAt is the number of the
\* calloc call that fails (0: none does).
VsopLoadModel(h, file, oomAt) ==
    IF ~file.open
    THEN LoadFinish(LoadStart(h), TRUE)
    ELSE LET st == LoadLines(LoadStart(h), file.lines, 1, oomAt)
         IN  LoadFinish(st, st.error \/ LoadFinalError(st))


(***************************************************************************)
(* Truncation.                                                             *)
(***************************************************************************)
\* Millennia(tt) = tt / DAYS_PER_MILLENNIUM; the times of this model are
\* whole millennia, for which the quotient is exact.
Millennia(tt) == (Abs(tt) \div DAYS_PER_MILLENNIUM) * (IF tt < 0 THEN -1 ELSE 1)

\* Lines 466-468: the largest |t| of the time span.
MaxAbsT(tt1, tt2) ==
    LET t1 == Abs(Millennia(tt1))
        t2 == Abs(Millennia(tt2))
    IN  IF t1 > t2 THEN t1 ELSE t2

RECURSIVE Power(_, _)
Power(t, n) == IF n <= 0 THEN 1 ELSE t * Power(t, n - 1)

\* The body's typical distance from the Sun, in millionths; -1 for a body
\* that has none (the default branch).
BodyScaling(body) ==
    CASE body = VSOP_MERCURY -> 387098
      [] body = VSOP_VENUS   -> 723332
      [] body = VSOP_EARTH   -> 1000000
      [] body = VSOP_EMB     -> 1000000
      [] body = VSOP_MARS    -> 1523679
      [] body = VSOP_JUPITER -> 5204400
      [] body = VSOP_SATURN  -> 9582600
      [] body = VSOP_URANUS  -> 19218400
      [] body = VSOP_NEPTUNE -> 30110000
      [] OTHER               -> -1

\* ModelTypeScaling(model, k, &scaling): err is the return value, scaling
\* the factor in millionths.
ModelTypeScaling(model, k) ==
    LET byBody == [err     |-> IF BodyScaling(model.body) < 0 THEN 1 ELSE 0,
                   scaling |-> IF BodyScaling(model.body) < 0 THEN 0
                               ELSE BodyScaling(model.body)]
    IN  CASE model.version \in {VSOP_HELIO_RECT_J2000, VSOP_HELIO_RECT_DATE} ->
                byBody
          [] model.version \in {VSOP_HELIO_SPHER_J2000, VSOP_HELIO_SPHER_DATE} ->
                IF k = 0 \/ k = 1 THEN [err |-> 0, scaling |-> MICRO]
                ELSE byBody
          [] OTHER -> [err |-> 1, scaling |-> 0]

\* VsopTruncate without lines 471-481: the calc counts are left as found.
KeepCalc(model) == model

\* Lines 471-481 with the assignments turned round: every total count set to
\* its calc count.
StoreCalc(model) ==
    [model EXCEPT !.formula = [k \in CoordIdx |->
        IF k >= model.ncoords THEN model.formula[k]
        ELSE [model.formula[k] EXCEPT
                !.nseries_total = model.formula[k].nseries_calc,
                !.series = [s \in SeriesIdx |->
                    IF s >= model.formula[k].nseries_total
                    THEN model.formula[k].series[s]
                    ELSE [model.formula[k].series[s] EXCEPT
                            !.nterms_total = model.formula[k].series[s].nterms_calc]]]]]

\* Lines 471-481: every calc count back to its total.
ResetCalc(model) ==
    [model EXCEPT !.formula = [k \in CoordIdx |->
        IF k >= model.ncoords THEN model.formula[k]
        ELSE [model.formula[k] EXCEPT
                !.nseries_calc = model.formula[k].nseries_total,
                !.series = [s \in SeriesIdx |->
                    IF s >= model.formula[k].nseries_total
                    THEN model.formula[k].series[s]
                    ELSE [model.formula[k].series[s] EXCEPT
                            !.nterms_calc = model.formula[k].series[s].nterms_total]]]]]

\* Line 502: what removing the last active term of series s adds.
Increment(formula, h, s, t) ==
    Power(t, s) * Abs(h[formula.series[s].term].data[formula.series[s].nterms_calc])

\* Line 503 letting a later series of equal increment be the candidate.
NotWorse(increment, incr_best) == increment <= incr_best

\* The comparison of line 503 that makes a later series the candidate.
Better(increment, incr_best) == increment < incr_best

\* Lines 493-509: the scan for the candidate; best = -1 is s_best = NULL.
RECURSIVE Scan(_, _, _, _, _)
Scan(formula, h, t, s, cur) ==
    IF s >= formula.nseries_calc THEN cur
    ELSE IF formula.series[s].nterms_calc > 0
    THEN LET inc == Increment(formula, h, s, t)
         IN  IF cur.best = -1 \/ Better(inc, cur.incr)
             THEN Scan(formula, h, t, s + 1, [best |-> s, incr |-> inc])
             ELSE Scan(formula, h, t, s + 1, cur)
    ELSE Scan(formula, h, t, s + 1, cur)

\* scaled_threshold, in millionths of an amplitude unit (line 489).
ScaledThreshold(scaling, amplitudeThreshold) == scaling * amplitudeThreshold

\* Line 511 testing the total before the candidate is added to it.
OverBudgetBefore(accum, incr_best, scaled_threshold) ==
    accum * MICRO > scaled_threshold

\* Line 511 with the comparison turned round.
OverBudgetFlipped(accum, incr_best, scaled_threshold) ==
    (accum + incr_best) * MICRO < scaled_threshold

\* Line 511: accum + incr_best > scaled_threshold.
OverBudget(accum, incr_best, scaled_threshold) ==
    (accum + incr_best) * MICRO > scaled_threshold

\* Lines 490-516 taking an idle turn after every removal.
RECURSIVE GreedyIdle(_, _, _, _, _, _)
GreedyIdle(formula, h, t, accum, scaled_threshold, iters) ==
    LET c == Scan(formula, h, t, 0, [best |-> -1, incr |-> -1])
    IN  IF c.best = -1 \/ OverBudget(accum, c.incr, scaled_threshold)
        THEN [formula |-> formula, accum |-> accum, iters |-> iters + 1]
        ELSE GreedyIdle([formula EXCEPT !.series[c.best].nterms_calc = @ - 1],
                        h, t, accum + c.incr, scaled_threshold, iters + 2)

\* Lines 490-516: the removal loop of one coordinate.  iters counts the
\* turns of the loop, the last (breaking) one included.
RECURSIVE Greedy(_, _, _, _, _, _)
Greedy(formula, h, t, accum, scaled_threshold, iters) ==
    LET c == Scan(formula, h, t, 0, [best |-> -1, incr |-> -1])
    IN  IF c.best = -1 \/ OverBudget(accum, c.incr, scaled_threshold)
        THEN [formula |-> formula, accum |-> accum, iters |-> iters + 1]
        ELSE Greedy([formula EXCEPT !.series[c.best].nterms_calc = @ - 1],
                    h, t, accum + c.incr, scaled_threshold, iters + 1)

\* Lines 483-517: the loop over the coordinates.
RECURSIVE TruncateCoords(_, _, _, _, _)
TruncateCoords(model, h, t, amplitudeThreshold, k) ==
    IF k >= model.ncoords THEN [model |-> model, ret |-> 0]
    ELSE LET sc == ModelTypeScaling(model, k)
         IN  IF sc.err # 0 THEN [model |-> model, ret |-> 1]
             ELSE LET g == Greedy(model.formula[k], h, t, 0,
                                  ScaledThreshold(sc.scaling, amplitudeThreshold), 0)
                  IN  TruncateCoords([model EXCEPT !.formula[k] = g.formula],
                                     h, t, amplitudeThreshold, k + 1)

\* VsopTruncate(model, tt1, tt2, amplitudeThreshold)
VsopTruncate(model, h, tt1, tt2, amplitudeThreshold) ==
    TruncateCoords(ResetCalc(model), h, MaxAbsT(tt1, tt2), amplitudeThreshold, 0)

\* A trim that drops every empty active series, trailing or not.
TrimAllEmpty(formula) ==
    [formula EXCEPT !.nseries_calc =
        Cardinality({s \in SeriesIdx :
            s < formula.nseries_calc /\ formula.series[s].nterms_calc > 0})]

\* Lines 537-538 with an if for the while: one trailing empty series dropped.
TrimOnce(formula) ==
    IF formula.nseries_calc > 0
       /\ formula.series[formula.nseries_calc - 1].nterms_calc = 0
    THEN [formula EXCEPT !.nseries_calc = @ - 1]
    ELSE formula

\* Lines 537-538: drop the trailing empty series of one formula.
RECURSIVE TrimFormula(_)
TrimFormula(formula) ==
    IF formula.nseries_calc > 0
       /\ formula.series[formula.nseries_calc - 1].nterms_calc = 0
    THEN TrimFormula([formula EXCEPT !.nseries_calc = @ - 1])
    ELSE formula

\* VsopTrim(model)
VsopTrim(model) ==
    [model EXCEPT !.formula = [k \in CoordIdx |->
        IF k < model.ncoords THEN TrimFormula(model.formula[k])
        ELSE model.formula[k]]]

RECURSIVE SumTo(_, _)
SumTo(f, n) == IF n < 0 THEN 0 ELSE f[n] + SumTo(f, n - 1)

\* The inner loop of VsopTermCount: the active terms of one formula.
FormulaTermCount(formula) ==
    SumTo([s \in SeriesIdx |->
              IF s < formula.nseries_calc THEN formula.series[s].nterms_calc ELSE 0],
          VSOP_MAX_SERIES - 1)

\* VsopTermCount(model)
VsopTermCount(model) ==
    SumTo([k \in CoordIdx |->
              IF k < model.ncoords THEN FormulaTermCount(model.formula[k]) ELSE 0],
          VSOP_MAX_COORDS - 1)


(***************************************************************************)
(* The compact format.  A compact file is a sequence of lines:             *)
(*   [kind |-> "top", version, body, ncoords]                              *)
(*   [kind |-> "coord", k, nseries]                                        *)
(*   [kind |-> "series", s, nterms]                                        *)
(*   [kind |-> "term", i, A]                                               *)
(* or a junk line, which matches none of the reader's formats.             *)
(***************************************************************************)
TopLine(v, b, n) == [kind |-> "top", version |-> v, body |-> b, ncoords |-> n]

CoordLine(k, n) == [kind |-> "coord", k |-> k, nseries |-> n]

SeriesLine(s, n) == [kind |-> "series", s |-> s, nterms |-> n]

TermLine(i, a) == [kind |-> "term", i |-> i, A |-> a]

\* Lines 579-586: a series' line and its active terms.
WriteSeries(series, h, s) ==
    << SeriesLine(s, series.nterms_calc) >> \o
    [i \in 1 .. series.nterms_calc |-> TermLine(i - 1, h[series.term].data[i])]

RECURSIVE WriteSeriesFrom(_, _, _)
WriteSeriesFrom(formula, h, s) ==
    IF s >= formula.nseries_calc THEN << >>
    ELSE WriteSeries(formula.series[s], h, s) \o WriteSeriesFrom(formula, h, s + 1)

\* Line 575: the count a coordinate's line carries.
WrittenSeriesCount(formula) == formula.nseries_calc

RECURSIVE WriteCoordsFrom(_, _, _)
WriteCoordsFrom(model, h, k) ==
    IF k >= model.ncoords THEN << >>
    ELSE << CoordLine(k, WrittenSeriesCount(model.formula[k])) >>
         \o WriteSeriesFrom(model.formula[k], h, 0)
         \o WriteCoordsFrom(model, h, k + 1)

\* VsopWriteTrunc(model, outFileName): the lines written.
VsopWriteTrunc(model, h) ==
    << TopLine(model.version, model.body, model.ncoords) >>
    \o WriteCoordsFrom(model, h, 0)

\* The reader's locals and the model under construction; lnum counts the
\* lines PARSELINE has asked for.
ReadStart(h) ==
    [model |-> VsopInit, heap |-> h, allocs |-> {}, error |-> FALSE,
     lnum |-> 0, ncalloc |-> 0]

\* PARSELINE's fgets: the next line exists.
HasLine(st, file) == st.lnum + 1 <= Len(file)

\* Lines 629-633: the first line.
TopOk(line) ==
    /\ line.kind = "top"
    /\ line.ncoords >= VSOP_MIN_COORDS
    /\ line.ncoords <= VSOP_MAX_COORDS

\* Lines 639-643 without the range test on the series count.
SeriesCountAny(nseries) == TRUE

\* Lines 642-643: the range test on a coordinate's series count.
SeriesCountOk(nseries) == nseries >= 0 /\ nseries < VSOP_MAX_SERIES

\* Lines 639-643: a coordinate's line.
CoordOk(line, k) ==
    /\ line.kind = "coord"
    /\ line.k = k
    /\ SeriesCountOk(line.nseries)

\* Lines 651-653 without the test check_s == s.
SeriesAnyIndex(line, s) == line.kind = "series"

\* Lines 651-653: a series' line.
SeriesOk(line, s) == line.kind = "series" /\ line.s = s

\* Lines 667-670: a term's line.
TermOk(line, i) == line.kind = "term" /\ line.i = i

\* Lines 664-671: the terms of series <<k, s>> from index i on.
RECURSIVE ReadTerms(_, _, _, _, _)
ReadTerms(st, file, k, s, i) ==
    IF i >= st.model.formula[k].series[s].nterms_total THEN st
    ELSE IF ~HasLine(st, file) THEN [st EXCEPT !.lnum = @ + 1, !.error = TRUE]
    ELSE LET line == file[st.lnum + 1]
             p == st.model.formula[k].series[s].term
         IN  IF ~TermOk(line, i) THEN [st EXCEPT !.lnum = @ + 1, !.error = TRUE]
             ELSE ReadTerms([st EXCEPT !.lnum = @ + 1, !.heap[p].data[i + 1] = line.A],
                            file, k, s, i + 1)

\* Lines 647-672: the series of coordinate k from index s on.  zeroNull says
\* whether this C library's calloc(0, ...) returns NULL.
RECURSIVE ReadSeries(_, _, _, _, _, _)
ReadSeries(st, file, k, s, oomAt, zeroNull) ==
    IF s >= st.model.formula[k].nseries_total THEN st
    ELSE IF ~HasLine(st, file) THEN [st EXCEPT !.lnum = @ + 1, !.error = TRUE]
    ELSE LET line == file[st.lnum + 1]
         IN  IF ~SeriesOk(line, s) THEN [st EXCEPT !.lnum = @ + 1, !.error = TRUE]
             ELSE LET n == line.nterms
                      c == Calloc(st.heap, n,
                                  st.ncalloc + 1 = oomAt \/ (n = 0 /\ zeroNull))
                      s1 == [st EXCEPT
                               !.lnum = @ + 1,
                               !.model.formula[k].series[s] =
                                   [nterms_total |-> n, nterms_calc |-> n,
                                    term |-> c.ptr],
                               !.heap = c.heap,
                               !.allocs = IF c.ptr = NULL THEN @ ELSE @ \cup {c.ptr},
                               !.ncalloc = @ + 1,
                               !.error = (c.ptr = NULL)]
                      s2 == IF s1.error THEN s1 ELSE ReadTerms(s1, file, k, s, 0)
                  IN  IF s2.error THEN s2
                      ELSE ReadSeries(s2, file, k, s + 1, oomAt, zeroNull)

\* Lines 635-673: the coordinates from index k on.
RECURSIVE ReadCoords(_, _, _, _, _)
ReadCoords(st, file, k, oomAt, zeroNull) ==
    IF k >= st.model.ncoords THEN st
    ELSE IF ~HasLine(st, file) THEN [st EXCEPT !.lnum = @ + 1, !.error = TRUE]
    ELSE LET line == file[st.lnum + 1]
         IN  IF ~CoordOk(line, k) THEN [st EXCEPT !.lnum = @ + 1, !.error = TRUE]
             ELSE LET s1 == [st EXCEPT
                               !.lnum = @ + 1,
                               !.model.formula[k].nseries_total = line.nseries,
                               !.model.formula[k].nseries_calc = line.nseries]
                      s2 == ReadSeries(s1, file, k, 0, oomAt, zeroNull)
                  IN  IF s2.error THEN s2
                      ELSE ReadCoords(s2, file, k + 1, oomAt, zeroNull)

\* Lines 629-633, then the loops.
ReadTop(st, file, oomAt, zeroNull) ==
    IF ~HasLine(st, file) THEN [st EXCEPT !.lnum = @ + 1, !.error = TRUE]
    ELSE LET line == file[st.lnum + 1]
         IN  IF ~TopOk(line) THEN [st EXCEPT !.lnum = @ + 1, !.error = TRUE]
             ELSE ReadCoords([st EXCEPT !.lnum = @ + 1,
                                        !.model.version = line.version,
                                        !.model.body = line.body,
                                        !.model.ncoords = line.ncoords],
                             file, 0, oomAt, zeroNull)

\* Lines 676-679: on error the model is released.
ReadFinish(st) ==
    LET e == [heap |-> st.heap, allocs |-> st.allocs, frees |-> << >>,
              bad |-> FALSE]
    IN  IF st.error
        THEN LET f == VsopFreeModel(st.model, e)
             IN  [model |-> f.model, eff |-> f.eff, ret |-> 1]
        ELSE [model |-> st.model, eff |-> e, ret |-> 0]

\* VsopReadTrunc(model, inFileName) on heap h.
VsopReadTrunc(h, file, oomAt, zeroNull) ==
    IF ~file.open
    THEN ReadFinish(Fail(ReadStart(h)))
    ELSE ReadFinish(ReadTop(ReadStart(h), file.lines, oomAt, zeroNull))


(***************************************************************************)
(* Position and velocity.  The vectors themselves are sums of cosines and  *)
(* are not computed here: pos and vel say whether the call wrote the       *)
(* caller's output vector.                                                 *)
(***************************************************************************)
\* VsopCalcPos without the default case of its version switch (lines 302-305).
CalcPosAnyVersion(model) ==
    IF model.ncoords < 3 \/ model.ncoords > VSOP_MAX_COORDS
    THEN [ret |-> 1, pos |-> FALSE, vel |-> FALSE]
    ELSE [ret |-> 0, pos |-> TRUE, vel |-> FALSE]

\* VsopCalcPos(model, tt, pos)
VsopCalcPos(model) ==
    IF model.ncoords < 3 \/ model.ncoords > VSOP_MAX_COORDS
    THEN [ret |-> 1, pos |-> FALSE, vel |-> FALSE]
    ELSE IF model.version \in {VSOP_HELIO_RECT_J2000, VSOP_HELIO_RECT_DATE,
                               VSOP_HELIO_SPHER_J2000, VSOP_HELIO_SPHER_DATE}
    THEN [ret |-> 0, pos |-> TRUE, vel |-> FALSE]
    ELSE [ret |-> 1, pos |-> FALSE, vel |-> FALSE]

\* Line 323 accepting both spherical versions.
AnySpherical(version) ==
    version \in {VSOP_HELIO_SPHER_J2000, VSOP_HELIO_SPHER_DATE}

\* Line 323: the version VsopCalcPosVel accepts.
PosVelVersionOk(version) == version = VSOP_HELIO_SPHER_J2000

\* VsopCalcPosVel(model, tt, pos, vel)
VsopCalcPosVel(model) ==
    IF ~PosVelVersionOk(model.version)
    THEN [ret |-> 1, pos |-> FALSE, vel |-> FALSE]
    ELSE IF model.ncoords # 3
    THEN [ret |-> 1, pos |-> FALSE, vel |-> FALSE]
    ELSE [ret |-> 0, pos |-> TRUE, vel |-> TRUE]


(***************************************************************************)
(* Inputs.                                                                 *)
(***************************************************************************)
\* The largest number of a calloc call that is made to fail.
MaxOomAt == 1

\* The formulas of the input files: a formula is a sequence of series (power
\* 0 first), a series a sequence of amplitudes.
FormulaA == << << 5, 2 >> >>
FormulaB == << << 3 >>, << -1, 4 >> >>
FormulaC == << << 1 >>, << 1 >>, << 1 >>, << 1 >>, << 1 >>, << 1 >> >>
FormulaD == << << 1, 3 >>, << 4, 2 >> >>
FormulaE == << << 1 >>, << 1 >>, << 1 >>, << 1 >>, << 1 >>, << 1 >>, << 1 >> >>

BodyNames == {"MERCURY ", "EARTH   ", "SUN     ", "PLUTO   "}

VersionDigits == 0 .. 5

RECURSIVE Concat(_)
Concat(ss) == IF ss = << >> THEN << >> ELSE Head(ss) \o Concat(Tail(ss))

\* The records of one series: its header, then its data records.
StdSeries(v, b, F, s) ==
    << Hdr(v, b, s, Len(F[s + 1])) >> \o [i \in 1 .. Len(F[s + 1]) |-> Dat(F[s + 1][i])]

StdFormula(v, b, F) == Concat([n \in 1 .. Len(F) |-> StdSeries(v, b, F, n - 1)])

\* A file of n coordinates, each with formula F.
StdLines(v, b, F, n) == Concat([k \in 1 .. n |-> StdFormula(v, b, F)])

\* Well-formed files: every version and body with the short formulas, and
\* the longer formulas for two versions and two bodies.
StdFiles ==
    {File(StdLines(v, b, F, ExpectedNcoords(v))) :
        v \in VersionDigits, b \in BodyNames, F \in {FormulaA, FormulaB}}
    \cup {File(StdLines(v, b, F, ExpectedNcoords(v))) :
        v \in {1, 2}, b \in {"MERCURY ", "EARTH   "}, F \in {FormulaC, FormulaD}}

\* Files with other coordinate counts, and with a series too many.
MiscountedFiles ==
    {File(StdLines(v, "EARTH   ", FormulaA, n)) : v \in {0, 1}, n \in {0, 2, 4, 6, 7}}
    \cup {File(StdLines(1, "EARTH   ", FormulaE, 3))}

BaseLines == StdLines(2, "EARTH   ", FormulaB, 3)

OddLines ==
    {Junk, Dat(7), Hdr(9, "EARTH   ", 0, 1), Hdr(4, "SUN     ", 0, 1),
     Hdr(2, "EARTH   ", 1, 2), Hdr(2, "EARTH   ", 0, 0), Hdr(2, "PLUTO   ", 2, 1),
     Hdr(2, "EARTH   ", 2, 2), Hdr(5, "PLUTO   ", 0, 1)}

ReplaceLine(lines, p, l) == [i \in 1 .. Len(lines) |-> IF i = p THEN l ELSE lines[i]]

\* BaseLines with one line replaced, and BaseLines cut short.
EditedFiles ==
    {File(ReplaceLine(BaseLines, p, l)) : p \in 1 .. Len(BaseLines), l \in OddLines}
    \cup {File(SubSeq(BaseLines, 1, n)) : n \in 0 .. Len(BaseLines)}

InputFiles == StdFiles \cup MiscountedFiles \cup EditedFiles \cup {NoFile}

\* Times (days from J2000) and amplitude thresholds of the truncation calls.
TT1s == {-2 * DAYS_PER_MILLENNIUM, 0}
TT2s == {0, DAYS_PER_MILLENNIUM}
Thresholds == {-1, 0, 4, 9}

\* Compact files not written by the writer: CompactBase with one line
\* replaced or cut short, and files with no series at all.
CompactBase ==
    << TopLine(2, 2, 3),
       CoordLine(0, 1), SeriesLine(0, 2), TermLine(0, 5), TermLine(1, 2),
       CoordLine(1, 0),
       CoordLine(2, 2), SeriesLine(0, 0), SeriesLine(1, 1), TermLine(0, 4) >>

OddCompactLines ==
    {Junk, TopLine(0, 2, 3), TopLine(2, 2, 2), TopLine(2, 2, 7), TopLine(7, 42, 3),
     CoordLine(1, VSOP_MAX_SERIES), CoordLine(1, -1), CoordLine(2, 0),
     SeriesLine(0, 1), SeriesLine(0, -1), SeriesLine(1, 1),
     TermLine(0, 6), TermLine(1, 6)}

BareCompactFiles ==
    {File(<< TopLine(v, b, n) >> \o [k \in 1 .. n |-> CoordLine(k - 1, 0)]) :
        v \in {0, 1, 2}, b \in {2}, n \in 3 .. 6}

HandFiles ==
    {File(ReplaceLine(CompactBase, p, l)) :
        p \in 1 .. Len(CompactBase), l \in OddCompactLines}
    \cup {File(SubSeq(CompactBase, 1, n)) : n \in 0 .. Len(CompactBase)}
    \cup BareCompactFiles

(***************************************************************************)
(* The state: a caller's model, the heap, the compact file on disk, and    *)
(* the last call with its arguments and results.                           *)
(***************************************************************************)
VARIABLES
    model,      \* the caller's vsop_model_t
    heap,       \* the live term-storage blocks
    disk,       \* the compact file the writer wrote last (NoFile: none)
    loaded,     \* the model as the last successful load or read returned it
    origin,     \* the call that returned it ("none": the model is null)
    written,    \* the model, and its origin, when the writer last wrote disk;
                \* trimmed: it was then fresh from VsopTruncate and VsopTrim
    input,      \* the file the model was loaded or read from (NoFile: none)
    eff,        \* the last call's allocations and frees
    last        \* the last call: op, ret, its arguments and outputs

vars == << model, heap, disk, loaded, origin, written, input, eff, last >>

\* dirty: some calc count differed from its total when the call began;
\* afterTruncate: the call followed a successful VsopTruncate;
\* oomAt, zeroNull: the allocator's behaviour during the call; fromDisk: the
\* file read was the one on disk.
Call(op, ret) ==
    [op |-> op, ret |-> ret, tt1 |-> 0, tt2 |-> 0, threshold |-> 0,
     pos |-> FALSE, vel |-> FALSE, count |-> 0, dirty |-> FALSE,
     afterTruncate |-> FALSE,
     oomAt |-> 0, zeroNull |-> FALSE, fromDisk |-> FALSE]

Effect(e) == [allocs |-> e.allocs, frees |-> e.frees, bad |-> e.bad]

Init ==
    /\ model = VsopInit
    /\ heap = EmptyHeap
    /\ disk = NoFile
    /\ loaded = VsopInit
    /\ origin = "none"
    /\ written = [model |-> VsopInit, origin |-> "none", trimmed |-> FALSE]
    /\ input = NoFile
    /\ eff = Effect(NoEffect(EmptyHeap))
    /\ last = Call("VsopInit", 0)

\* VsopInit(&model): whatever the model held is forgotten, not freed.
CallVsopInit ==
    /\ Cardinality(Live(heap)) <= MaxLeak
    /\ model' = VsopInit
    /\ loaded' = VsopInit
    /\ origin' = "none"
    /\ input' = NoFile
    /\ eff' = Effect(NoEffect(heap))
    /\ last' = Call("VsopInit", 0)
    /\ UNCHANGED << heap, disk, written >>

Installed(r, op, f, oomAt, zeroNull) ==
    /\ model' = r.model
    /\ heap' = r.eff.heap
    /\ loaded' = r.model
    /\ origin' = IF r.ret = 0 THEN op ELSE "none"
    /\ input' = IF r.ret = 0 THEN f ELSE NoFile
    /\ eff' = Effect(r.eff)
    /\ last' = [Call(op, r.ret) EXCEPT !.oomAt = oomAt, !.zeroNull = zeroNull,
                                       !.fromDisk = (f = disk)]

\* VsopLoadModel(&model, inFileName).  The call begins with VsopInit(model),
\* so on a populated model it is CallVsopInit followed by this call; it is
\* taken here on a null model.
CallVsopLoadModel(files) ==
    /\ model = VsopInit
    /\ \E f \in files, oomAt \in 0 .. MaxOomAt :
          Installed(VsopLoadModel(heap, f, oomAt), "VsopLoadModel",
                    f, oomAt, FALSE)
    /\ UNCHANGED << disk, written >>

\* VsopFreeModel(&model)
CallVsopFreeModel ==
    LET r == VsopFreeModel(model, NoEffect(heap))
    IN  /\ model' = r.model
        /\ heap' = r.eff.heap
        /\ loaded' = VsopInit
        /\ eff' = Effect(r.eff)
        /\ last' = Call("VsopFreeModel", 0)
        /\ origin' = "none"
        /\ input' = NoFile
        /\ UNCHANGED << disk, written >>

\* VsopTruncate(&model, tt1, tt2, amplitudeThreshold)
CallVsopTruncate(tt1s, tt2s, thresholds) ==
    \E tt1 \in tt1s, tt2 \in tt2s, th \in thresholds :
        LET r == VsopTruncate(model, heap, tt1, tt2, th)
        IN  /\ model' = r.model
            /\ eff' = Effect(NoEffect(heap))
            /\ last' = [Call("VsopTruncate", r.ret) EXCEPT
                            !.tt1 = tt1, !.tt2 = tt2, !.threshold = th,
                            !.dirty = (model # loaded)]
            /\ UNCHANGED << heap, disk, loaded, origin, written, input >>

\* VsopTrim(&model)
CallVsopTrim ==
    /\ model' = VsopTrim(model)
    /\ eff' = Effect(NoEffect(heap))
    /\ last' = [Call("VsopTrim", 0) EXCEPT
                    !.afterTruncate = (last.op = "VsopTruncate" /\ last.ret = 0)]
    /\ UNCHANGED << heap, disk, loaded, origin, written, input >>

\* VsopTermCount(&model)
CallVsopTermCount ==
    /\ eff' = Effect(NoEffect(heap))
    /\ last' = [Call("VsopTermCount", 0) EXCEPT !.count = VsopTermCount(model)]
    /\ UNCHANGED << model, heap, disk, loaded, origin, written, input >>

\* VsopCalcPos(&model, tt, pos)
CallVsopCalcPos ==
    LET r == VsopCalcPos(model)
    IN  /\ eff' = Effect(NoEffect(heap))
        /\ last' = [Call("VsopCalcPos", r.ret) EXCEPT !.pos = r.pos, !.vel = r.vel]
        /\ UNCHANGED << model, heap, disk, loaded, origin, written, input >>

\* VsopCalcPosVel(&model, tt, pos, vel)
CallVsopCalcPosVel ==
    LET r == VsopCalcPosVel(model)
    IN  /\ eff' = Effect(NoEffect(heap))
        /\ last' = [Call("VsopCalcPosVel", r.ret) EXCEPT !.pos = r.pos, !.vel = r.vel]
        /\ UNCHANGED << model, heap, disk, loaded, origin, written, input >>

\* VsopWriteTrunc(&model, outFileName); canOpen: fopen(outFileName, "wt")
\* succeeds.
CallVsopWriteTrunc ==
    \E canOpen \in BOOLEAN :
        /\ disk' = IF canOpen THEN File(VsopWriteTrunc(model, heap)) ELSE disk
        /\ eff' = Effect(NoEffect(heap))
        /\ last' = Call("VsopWriteTrunc", IF canOpen THEN 0 ELSE 1)
        /\ written' = IF canOpen
                       THEN [model |-> model, origin |-> origin,
                             trimmed |-> (last.op = "VsopTrim" /\ last.afterTruncate)]
                       ELSE written
        /\ UNCHANGED << model, heap, loaded, origin, input >>

\* VsopReadTrunc(&model, inFileName), of the file on disk or of another; like
\* VsopLoadModel it begins with VsopInit(model) and is taken on a null model.
CallVsopReadTrunc(files) ==
    /\ model = VsopInit
    /\ \E f \in files \cup {disk}, oomAt \in 0 .. MaxOomAt, zeroNull \in BOOLEAN :
          Installed(VsopReadTrunc(heap, f, oomAt, zeroNull), "VsopReadTrunc",
                    f, oomAt, zeroNull)
    /\ UNCHANGED << disk, written >>

Next ==
    \/ CallVsopInit
    \/ CallVsopLoadModel(InputFiles)
    \/ CallVsopFreeModel
    \/ CallVsopTruncate(TT1s, TT2s, Thresholds)
    \/ CallVsopTrim
    \/ CallVsopTermCount
    \/ CallVsopCalcPos
    \/ CallVsopCalcPosVel
    \/ CallVsopReadTrunc(HandFiles)

Spec == Init /\ [][Next]_vars

(***************************************************************************)
(* The generator's pipeline: load, truncate, trim, write the compact file  *)
(* and read it back, on fewer input files.                                 *)
(***************************************************************************)
IOFiles ==
    {File(StdLines(v, b, F, ExpectedNcoords(v))) :
        v \in {0, 2}, b \in {"EARTH   "}, F \in {FormulaA, FormulaB, FormulaC}}
    \cup {File(SubSeq(BaseLines, 1, n)) : n \in {1, 4}}
    \cup {NoFile}

IOThresholds == {4, 9}

NextIO ==
    \/ CallVsopInit
    \/ CallVsopLoadModel(IOFiles)
    \/ CallVsopFreeModel
    \/ CallVsopTruncate({0}, {DAYS_PER_MILLENNIUM}, IOThresholds)
    \/ CallVsopTrim
    \/ CallVsopWriteTrunc
    \/ CallVsopReadTrunc({})

SpecIO == Init /\ [][NextIO]_vars


(***************************************************************************)
(* Properties.                                                             *)
(***************************************************************************)
IsTruncate == last.op = "VsopTruncate"

\* t of the last truncation call.
LastT == MaxAbsT(last.tt1, last.tt2)

\* The model with every calc count of every slot set to its total.
Restored(m) ==
    [m EXCEPT !.formula = [k \in CoordIdx |->
        [nseries_total |-> m.formula[k].nseries_total,
         nseries_calc  |-> m.formula[k].nseries_total,
         series |-> [s \in SeriesIdx |->
            [m.formula[k].series[s] EXCEPT
                !.nterms_calc = m.formula[k].series[s].nterms_total]]]]]

Untruncated(m) == m = Restored(m)

\* Same version, body, ncoords, nseries_calc of every coordinate and
\* nterms_calc of every active series.
SameActive(a, b) ==
    /\ a.version = b.version
    /\ a.body = b.body
    /\ a.ncoords = b.ncoords
    /\ \A k \in CoordIdx : k < a.ncoords =>
          /\ a.formula[k].nseries_calc = b.formula[k].nseries_calc
          /\ \A s \in SeriesIdx : s < a.formula[k].nseries_calc =>
                a.formula[k].series[s].nterms_calc = b.formula[k].series[s].nterms_calc

\* The terms of series s with index >= nterms_calc, each weighed t^s * |amplitude|.
RemovedOfSeries(series, h, t, s) ==
    SumTo([i \in 0 .. (series.nterms_total - 1) |->
              IF i >= series.nterms_calc
              THEN Power(t, s) * Abs(h[series.term].data[i + 1]) ELSE 0],
          series.nterms_total - 1)

Removed(formula, h, t) ==
    SumTo([s \in SeriesIdx |->
              IF s < formula.nseries_total
              THEN RemovedOfSeries(formula.series[s], h, t, s) ELSE 0],
          VSOP_MAX_SERIES - 1)

\* The active terms of a formula: nterms_calc summed over its series.
ActiveTerms(formula) ==
    SumTo([s \in SeriesIdx |->
              IF s < formula.nseries_total THEN formula.series[s].nterms_calc ELSE 0],
          VSOP_MAX_SERIES - 1)

AnyRemoved(formula) ==
    \E s \in SeriesIdx : s < formula.nseries_total
        /\ formula.series[s].nterms_calc < formula.series[s].nterms_total

Budget(k) == ModelTypeScaling(model, k).scaling * last.threshold

\* C1: a model VsopLoadModel accepted, written by VsopWriteTrunc with no
\* truncation applied, is read back by VsopReadTrunc (no allocation failing)
\* with success and with the same version, body, ncoords, nseries_calc and
\* nterms_calc.
C1_RoundTrip ==
    (/\ last.op = "VsopReadTrunc"
     /\ last.fromDisk
     /\ last.oomAt = 0
     /\ written.origin = "VsopLoadModel"
     /\ Untruncated(written.model))
    => last.ret = 0 /\ SameActive(model, written.model)

\* C2, as stated: after a successful VsopTruncate the weighed sum of the terms
\* removed from each coordinate does not exceed scaling(k) * threshold.
C2_RemovedWithinBudget ==
    (IsTruncate /\ last.ret = 0) =>
        \A k \in CoordIdx : k < model.ncoords =>
            Removed(model.formula[k], heap, LastT) * MICRO <= Budget(k)

\* C2, amended: after a successful VsopTruncate the weighed sum of the terms
\* removed from each coordinate that lost a term does not exceed
\* scaling(k) * threshold.
C2_RemovedWithinBudgetIfAny ==
    (IsTruncate /\ last.ret = 0) =>
        \A k \in CoordIdx : (k < model.ncoords /\ AnyRemoved(model.formula[k])) =>
            Removed(model.formula[k], heap, LastT) * MICRO <= Budget(k)

\* A truncation that removed terms of a coordinate and stopped at the budget
\* with terms left.
C2_Witness ==
    /\ IsTruncate
    /\ last.ret = 0
    /\ \E k \in CoordIdx :
          /\ k < model.ncoords
          /\ Removed(model.formula[k], heap, LastT) > 0
          /\ ActiveTerms(model.formula[k]) > 0

\* C3: the active counts after a successful VsopTruncate are those of the
\* same call on the model as it was loaded, whatever earlier VsopTruncate and
\* VsopTrim calls left in the calc counts.
C3_FromUntruncated ==
    (IsTruncate /\ last.ret = 0) =>
        SameActive(model,
                   VsopTruncate(loaded, heap, last.tt1, last.tt2, last.threshold).model)

\* A successful truncation, with terms removed, of a model whose calc counts
\* earlier calls had lowered.
C3_Witness ==
    /\ IsTruncate
    /\ last.ret = 0
    /\ last.dirty
    /\ \E k \in CoordIdx : k < model.ncoords /\ AnyRemoved(model.formula[k])

\* C4: for the interval of the last truncation and every other threshold b,
\* truncating with b leaves each coordinate no more active terms than the
\* last threshold did when b is the larger, and no fewer when b is the smaller.
C4_Monotone ==
    IsTruncate =>
        \A b \in Thresholds :
            LET other == VsopTruncate(model, heap, last.tt1, last.tt2, b).model
            IN  \A k \in CoordIdx : k < model.ncoords =>
                    /\ last.threshold <= b =>
                          ActiveTerms(other.formula[k]) <= ActiveTerms(model.formula[k])
                    /\ b <= last.threshold =>
                          ActiveTerms(other.formula[k]) >= ActiveTerms(model.formula[k])

\* A truncation after which a larger threshold leaves strictly fewer terms
\* in some coordinate.
C4_Witness ==
    /\ IsTruncate
    /\ \E b \in Thresholds, k \in CoordIdx :
          /\ k < model.ncoords
          /\ last.threshold < b
          /\ ActiveTerms(VsopTruncate(model, heap, last.tt1, last.tt2, b).model.formula[k])
                < ActiveTerms(model.formula[k])

\* The null state: the sentinels, no coordinates, every count 0, every term
\* pointer null.
IsNull(m) ==
    /\ m.version = VSOP_INVALID_VERSION
    /\ m.body = VSOP_INVALID_BODY
    /\ m.ncoords = 0
    /\ \A k \in CoordIdx :
          /\ m.formula[k].nseries_total = 0
          /\ m.formula[k].nseries_calc = 0
          /\ \A s \in SeriesIdx :
                /\ m.formula[k].series[s].nterms_total = 0
                /\ m.formula[k].series[s].nterms_calc = 0
                /\ m.formula[k].series[s].term = NULL

FreedOnce(p) == Cardinality({i \in 1 .. Len(eff.frees) : eff.frees[i] = p}) = 1

\* C5: when VsopLoadModel or VsopReadTrunc returns an error the model is in
\* the null state and every block the call allocated was freed exactly once
\* (and nothing else was freed).
C5_ErrorLeavesNull ==
    (last.op \in {"VsopLoadModel", "VsopReadTrunc"} /\ last.ret # 0) =>
        /\ IsNull(model)
        /\ \A p \in eff.allocs : FreedOnce(p) /\ ~heap[p].live
        /\ \A i \in 1 .. Len(eff.frees) : eff.frees[i] \in eff.allocs
        /\ ~eff.bad

\* A failed load or read that had allocated two blocks or more.
C5_Witness ==
    /\ last.op \in {"VsopLoadModel", "VsopReadTrunc"}
    /\ last.ret # 0
    /\ last.oomAt = 0
    /\ Cardinality(eff.allocs) >= 2


\* C6: VsopTruncate, whatever it returns, leaves version, body, ncoords, every
\* total count, every term pointer and every stored coefficient as they were,
\* so that setting every calc count to its total gives the model as loaded.
C6_TruncateFrame ==
    [][last'.op = "VsopTruncate" =>
          /\ model'.version = model.version
          /\ model'.body = model.body
          /\ model'.ncoords = model.ncoords
          /\ \A k \in CoordIdx :
                /\ model'.formula[k].nseries_total = model.formula[k].nseries_total
                /\ \A s \in SeriesIdx :
                      /\ model'.formula[k].series[s].nterms_total
                            = model.formula[k].series[s].nterms_total
                      /\ model'.formula[k].series[s].term
                            = model.formula[k].series[s].term
          /\ heap' = heap
          /\ Restored(model') = loaded]_vars

\* A truncation that removed terms and then failed or succeeded, the model
\* no longer being as loaded.
C6_Witness ==
    /\ IsTruncate
    /\ model # loaded
    /\ Live(heap) # {}

\* The largest n <= nseries_calc with n = 0 or series[n-1].nterms_calc > 0.
TrimTarget(formula) ==
    CHOOSE n \in 0 .. formula.nseries_calc :
        /\ n = 0 \/ formula.series[n - 1].nterms_calc > 0
        /\ \A m \in (n + 1) .. formula.nseries_calc :
              formula.series[m - 1].nterms_calc = 0

\* C7: VsopTrim sets each coordinate's nseries_calc to the largest n not above
\* it with n = 0 or series[n-1] non-empty, and changes nothing else: a
\* formula whose highest active series is non-empty keeps its nseries_calc.
C7_TrimTrailing ==
    [][last'.op = "VsopTrim" =>
          /\ model' = [model EXCEPT !.formula = [k \in CoordIdx |->
                IF k < model.ncoords
                THEN [model.formula[k] EXCEPT
                        !.nseries_calc = TrimTarget(model.formula[k])]
                ELSE model.formula[k]]]
          /\ heap' = heap]_vars

\* After a trim: a coordinate with an empty series below a non-empty highest
\* active series, beside a coordinate that lost its trailing series.
C7_Witness ==
    /\ last.op = "VsopTrim"
    /\ \E k \in CoordIdx :
          /\ k < model.ncoords
          /\ model.formula[k].nseries_calc >= 2
          /\ model.formula[k].series[0].nterms_calc = 0
          /\ model.formula[k].series[model.formula[k].nseries_calc - 1].nterms_calc > 0
    /\ \E k \in CoordIdx :
          /\ k < model.ncoords
          /\ model.formula[k].nseries_calc < model.formula[k].nseries_total

\* C8: when VsopTruncate returns an error no coordinate has been truncated:
\* every series of every coordinate has nterms_calc = nterms_total.
C8_NoPartialTruncation ==
    (IsTruncate /\ last.ret # 0) =>
        \A k \in CoordIdx : k < model.ncoords =>
            \A s \in SeriesIdx : s < model.formula[k].nseries_total =>
                model.formula[k].series[s].nterms_calc
                    = model.formula[k].series[s].nterms_total

\* C9: a model that a successful VsopLoadModel or VsopReadTrunc produced, and
\* every state VsopTruncate and VsopTrim take it to, has 6 coordinates when
\* its version is elliptic and 3 otherwise, within the capacity.
C9_CoordCount ==
    origin \in {"VsopLoadModel", "VsopReadTrunc"} =>
        /\ model.version = VSOP_ELLIPTIC_J2000 => model.ncoords = 6
        /\ model.version # VSOP_ELLIPTIC_J2000 => model.ncoords = 3
        /\ VSOP_MIN_COORDS <= model.ncoords
        /\ model.ncoords <= VSOP_MAX_COORDS

\* C10: VsopCalcPosVel succeeds exactly when the version is heliocentric
\* spherical J2000 and ncoords = 3, and on an error writes neither pos nor vel.
C10_PosVelAccepts ==
    last.op = "VsopCalcPosVel" =>
        /\ last.ret = 0 <=>
              (model.version = VSOP_HELIO_SPHER_J2000 /\ model.ncoords = 3)
        /\ last.ret # 0 => ~last.pos /\ ~last.vel

\* VsopCalcPosVel refused a rectangular model of 3 coordinates.
C10_Witness ==
    /\ last.op = "VsopCalcPosVel"
    /\ last.ret # 0
    /\ model.version \in {VSOP_HELIO_RECT_J2000, VSOP_HELIO_RECT_DATE}
    /\ model.ncoords = 3


\* C11: VsopCalcPos succeeds exactly when 3 <= ncoords <= VSOP_MAX_COORDS and
\* the version is one of the four heliocentric versions, and on an error
\* leaves pos unwritten.
C11_PosAccepts ==
    last.op = "VsopCalcPos" =>
        /\ last.ret = 0 <=>
              /\ 3 <= model.ncoords
              /\ model.ncoords <= VSOP_MAX_COORDS
              /\ model.version \in {VSOP_HELIO_RECT_J2000, VSOP_HELIO_RECT_DATE,
                                    VSOP_HELIO_SPHER_J2000, VSOP_HELIO_SPHER_DATE}
        /\ last.ret # 0 => ~last.pos

\* VsopCalcPos refused an elliptic or barycentric model whose coordinate
\* count is in range.
C11_Witness ==
    /\ last.op = "VsopCalcPos"
    /\ last.ret # 0
    /\ ~last.pos
    /\ model.version \in {VSOP_ELLIPTIC_J2000, VSOP_BARY_RECT_J2000}
    /\ model.ncoords >= 3


\* The header records of the file the model was loaded from, in order.
IsHdr(line) == line.kind = "hdr"

InputHeaders == SelectSeq(input.lines, IsHdr)

\* The coordinate header i belongs to: the power-0 headers up to it, less one.
CoordOfHeader(H, i) == Cardinality({j \in 1 .. i : H[j].power = 0}) - 1

\* C12: a load succeeds only if the headers of every coordinate carry the
\* powers 0, 1, 2, ... with no gap, the first header having power 0; every
\* power-0 header starts a coordinate, of which there are at most
\* VSOP_MAX_COORDS, and each formula's series count is the number of its
\* headers.
C12_HeaderOrder ==
    origin = "VsopLoadModel" =>
        LET H == InputHeaders
        IN  /\ Len(H) > 0
            /\ H[1].power = 0
            /\ \A i \in 2 .. Len(H) :
                  H[i].power = 0 \/ H[i].power = H[i - 1].power + 1
            /\ model.ncoords = Cardinality({i \in 1 .. Len(H) : H[i].power = 0})
            /\ model.ncoords <= VSOP_MAX_COORDS
            /\ \A k \in CoordIdx : k < model.ncoords =>
                  model.formula[k].nseries_total
                      = Cardinality({i \in 1 .. Len(H) : CoordOfHeader(H, i) = k})

\* A model loaded from a file whose coordinates have two series or more.
C12_Witness ==
    /\ origin = "VsopLoadModel"
    /\ last.op = "VsopLoadModel"
    /\ \E i \in 1 .. Len(InputHeaders) : InputHeaders[i].power >= 1


\* From line i on, the lines are whole series: a header declaring n >= 1
\* terms, n data records, and then the next header or the end of the file.
RECURSIVE WholeSeries(_, _)
WholeSeries(lines, i) ==
    IF i > Len(lines) THEN TRUE
    ELSE /\ lines[i].kind = "hdr"
         /\ lines[i].nterms >= 1
         /\ i + lines[i].nterms <= Len(lines)
         /\ \A j \in (i + 1) .. (i + lines[i].nterms) : lines[j].kind = "dat"
         /\ WholeSeries(lines, i + lines[i].nterms + 1)

\* C13: a load succeeds only if every header declares n >= 1 terms and is
\* followed by exactly n data records, the file ending at a series boundary;
\* each series then holds the n terms its header declared.
C13_RecordCount ==
    origin = "VsopLoadModel" =>
        LET H == InputHeaders
        IN  /\ WholeSeries(input.lines, 1)
            /\ \A i \in 1 .. Len(H) :
                  LET series == model.formula[CoordOfHeader(H, i)].series[H[i].power]
                  IN  /\ series.nterms_total = H[i].nterms
                      /\ Len(heap[series.term].data) = H[i].nterms

\* A model just loaded from a file with a series of two terms or more.
C13_Witness ==
    /\ origin = "VsopLoadModel"
    /\ last.op = "VsopLoadModel"
    /\ \E i \in 1 .. Len(InputHeaders) : InputHeaders[i].nterms >= 2
    /\ WholeSeries(input.lines, 1)


\* C14: after a successful load the version is the first header's version
\* digit and the body is the body-table entry of the first header's name,
\* which is one of the table's 10 names, whatever the later headers carry.
C14_FirstHeaderOnly ==
    origin = "VsopLoadModel" =>
        LET H == InputHeaders
        IN  /\ model.version = H[1].version
            /\ \E b \in 1 .. Len(BodyTable) :
                  /\ BodyTable[b].name = H[1].body
                  /\ model.body = BodyTable[b].body
            /\ model.body # VSOP_INVALID_BODY

\* A model just loaded from a file with a later header of another version
\* and a later header of another body name.
C14_Witness ==
    /\ origin = "VsopLoadModel"
    /\ last.op = "VsopLoadModel"
    /\ \E i \in 2 .. Len(InputHeaders) :
          /\ InputHeaders[i].version # InputHeaders[1].version
          /\ InputHeaders[i].body # InputHeaders[1].body
    /\ model.version = InputHeaders[1].version


\* The lines a compact file must begin with for the reader to build the
\* model it returned: one line per coordinate, series and term, each with
\* its own index and the stored count, in order.
ExpectedCompactLines == VsopWriteTrunc(loaded, heap)

\* C15: VsopReadTrunc succeeds only if the file begins with the coordinate,
\* series and term lines of the model it returns, indexes 0, 1, 2, ... in
\* order and none missing; on success every calc count equals its total, the
\* stored count; on an error the model is null.
C15_ReadStrict ==
    /\ origin = "VsopReadTrunc" =>
          /\ Len(ExpectedCompactLines) <= Len(input.lines)
          /\ \A p \in 1 .. Len(ExpectedCompactLines) :
                input.lines[p] = ExpectedCompactLines[p]
    /\ (last.op = "VsopReadTrunc" /\ last.ret = 0) => Untruncated(model)
    /\ (last.op = "VsopReadTrunc" /\ last.ret # 0) => IsNull(model)

\* A model just read from a compact file, with a coordinate of two series
\* and a series of two terms.
C15_Witness ==
    /\ last.op = "VsopReadTrunc"
    /\ last.ret = 0
    /\ \E k \in CoordIdx : k < model.ncoords /\ model.formula[k].nseries_total >= 2
    /\ \E k \in CoordIdx : model.formula[k].series[0].nterms_total >= 2


\* The term pointers a model holds.
TermPointers(m) ==
    {m.formula[k].series[s].term : k \in CoordIdx, s \in SeriesIdx} \ {NULL}

\* C16: no call ever frees a block that is not live; VsopFreeModel leaves the
\* model null, frees each term pointer the model held exactly once and
\* nothing else, and so on a null model frees nothing and leaves the heap as
\* it was.
C16_FreeOnce ==
    [][/\ ~eff'.bad
       /\ last'.op = "VsopFreeModel" =>
             /\ IsNull(model')
             /\ {eff'.frees[i] : i \in 1 .. Len(eff'.frees)} = TermPointers(model)
             /\ Len(eff'.frees) = Cardinality(TermPointers(model))
             /\ Live(heap') = Live(heap) \ TermPointers(model)
             /\ IsNull(model) => (eff'.frees = << >> /\ heap' = heap)]_vars

\* VsopFreeModel called on a null model while a block is live: nothing was
\* freed.
C16_Witness ==
    /\ last.op = "VsopFreeModel"
    /\ eff.frees = << >>
    /\ IsNull(model)
    /\ Live(heap) # {}


\* The terms of a formula, active or not: nterms_total summed over its series.
TotalTerms(formula) ==
    SumTo([s \in SeriesIdx |->
              IF s < formula.nseries_total THEN formula.series[s].nterms_total ELSE 0],
          VSOP_MAX_SERIES - 1)

\* What the per-series tail removals of the series below s can take from a
\* formula: n terms with weighed sum w, for every choice of the number of
\* terms each series keeps.
RECURSIVE TailRemovals(_, _, _, _)
TailRemovals(formula, h, t, s) ==
    IF s = 0 THEN {[n |-> 0, w |-> 0]}
    ELSE LET series == formula.series[s - 1]
             own == IF s - 1 < formula.nseries_total
                    THEN {[n |-> series.nterms_total - c,
                           w |-> RemovedOfSeries([series EXCEPT !.nterms_calc = c],
                                                 h, t, s - 1)] :
                             c \in 0 .. series.nterms_total}
                    ELSE {[n |-> 0, w |-> 0]}
         IN  {[n |-> p.n + o.n, w |-> p.w + o.w] :
                 p \in TailRemovals(formula, h, t, s - 1), o \in own}

\* The largest number of terms a choice of tail removals takes from the
\* formula with the weighed sum of the removed terms within the budget.
MaxRemovable(formula, h, t, budget) ==
    LET counts == {r.n : r \in {q \in TailRemovals(formula, h, t, VSOP_MAX_SERIES) :
                                   q.w * MICRO <= budget}}
    IN  IF counts = {} THEN 0
        ELSE CHOOSE n \in counts : \A m \in counts : m <= n

\* C17: after a successful VsopTruncate the number of terms removed from each
\* coordinate is the largest number any choice of per-series tail removals
\* could remove with the weighed sum of the removed terms within the
\* coordinate's budget.
C17_GreedyOptimal ==
    (IsTruncate /\ last.ret = 0) =>
        \A k \in CoordIdx : k < model.ncoords =>
            TotalTerms(model.formula[k]) - ActiveTerms(model.formula[k])
                = MaxRemovable(model.formula[k], heap, LastT, Budget(k))


\* The active series of a formula that still have an active term.
Candidates(formula) ==
    {s \in SeriesIdx : s < formula.nseries_calc /\ formula.series[s].nterms_calc > 0}

\* The candidate whose last active term has the smallest increment, the
\* lowest power among equals.
SmallestTail(formula, h, t) ==
    CHOOSE s \in Candidates(formula) : \A r \in Candidates(formula) :
        \/ Increment(formula, h, s, t) < Increment(formula, h, r, t)
        \/ Increment(formula, h, s, t) = Increment(formula, h, r, t) /\ s <= r

\* Removing the last active term of the smallest-increment candidate again and
\* again, until there is no candidate or the increment no longer fits.
RECURSIVE Replay(_, _, _, _, _)
Replay(formula, h, t, accum, budget) ==
    IF Candidates(formula) = {} THEN formula
    ELSE LET s == SmallestTail(formula, h, t)
             inc == Increment(formula, h, s, t)
         IN  IF (accum + inc) * MICRO > budget THEN formula
             ELSE Replay([formula EXCEPT !.series[s].nterms_calc = @ - 1],
                         h, t, accum + inc, budget)

\* C18: after a successful VsopTruncate every coordinate is what removing,
\* from the untruncated coordinate, the last active term of the
\* smallest-increment series (the lowest power on ties) leaves when it is
\* repeated until every active series is empty or the increment would take
\* the running total over the budget; and no further tail removal of any
\* series fits within the budget.
C18_GreedyStep ==
    (IsTruncate /\ last.ret = 0) =>
        \A k \in CoordIdx : k < model.ncoords =>
            /\ model.formula[k]
                  = Replay(Restored(model).formula[k], heap, LastT, 0, Budget(k))
            /\ \A s \in Candidates(model.formula[k]) :
                  (Removed(model.formula[k], heap, LastT)
                      + Increment(model.formula[k], heap, s, LastT)) * MICRO > Budget(k)

\* A truncation that stopped at the budget after choosing between series of
\* equal increment: a lower power lost its last term, a higher power with the
\* same increment kept it.
C18_Witness ==
    /\ IsTruncate
    /\ last.ret = 0
    /\ \E k \in CoordIdx, s \in SeriesIdx, r \in SeriesIdx :
          /\ k < model.ncoords
          /\ s < r
          /\ r \in Candidates(model.formula[k])
          /\ model.formula[k].series[s].nterms_total > 0
          /\ model.formula[k].series[s].nterms_calc = 0
          /\ Increment(Restored(model).formula[k], heap, s, LastT)
                = Increment(model.formula[k], heap, r, LastT)


\* C19: in every state every formula has 0 <= nseries_calc <= nseries_total
\* <= VSOP_MAX_SERIES, every series 0 <= nterms_calc <= nterms_total, ncoords
\* is at most VSOP_MAX_COORDS, and every series with nterms_total > 0 holds a
\* live block of nterms_total terms that no other series holds.
C19_Counts ==
    /\ model.ncoords >= 0
    /\ model.ncoords <= VSOP_MAX_COORDS
    /\ \A k \in CoordIdx :
          /\ 0 <= model.formula[k].nseries_calc
          /\ model.formula[k].nseries_calc <= model.formula[k].nseries_total
          /\ model.formula[k].nseries_total <= VSOP_MAX_SERIES
          /\ \A s \in SeriesIdx :
                LET series == model.formula[k].series[s]
                IN  /\ 0 <= series.nterms_calc
                    /\ series.nterms_calc <= series.nterms_total
                    /\ series.nterms_total > 0 =>
                          /\ series.term # NULL
                          /\ heap[series.term].live
                          /\ Len(heap[series.term].data) = series.nterms_total
                          /\ \A k2 \in CoordIdx, s2 \in SeriesIdx :
                                model.formula[k2].series[s2].term = series.term
                                    => (k2 = k /\ s2 = s)

\* A trimmed model: a coordinate with fewer active series than it holds, the
\* first dropped series still holding its terms.
C19_Witness ==
    /\ last.op = "VsopTrim"
    /\ \E k \in CoordIdx :
          /\ k < model.ncoords
          /\ 0 < model.formula[k].nseries_calc
          /\ model.formula[k].nseries_calc < model.formula[k].nseries_total
          /\ model.formula[k].series[model.formula[k].nseries_calc].nterms_total > 0
          /\ model.formula[k].series[model.formula[k].nseries_calc].nterms_calc = 0


\* The removal loop of coordinate k as the call VsopTruncate(model, tt1, tt2,
\* threshold) runs it.
LoopOf(m, h, k, tt1, tt2, threshold) ==
    Greedy(ResetCalc(m).formula[k], h, MaxAbsT(tt1, tt2), 0,
           ScaledThreshold(ModelTypeScaling(m, k).scaling, threshold), 0)

\* C20: the removal loop of every coordinate of every VsopTruncate call ends
\* after one turn for each term it removed and one more, so after at most the
\* coordinate's total term count plus one; and a VsopTrim call lowers
\* nseries_calc of a coordinate by a number between 0 and its nseries_calc,
\* and lowers no other count.
C20_Bounded ==
    [][/\ last'.op = "VsopTruncate" =>
             \A k \in CoordIdx : k < model.ncoords =>
                 LET g == LoopOf(model, heap, k, last'.tt1, last'.tt2, last'.threshold)
                 IN  /\ g.iters = TotalTerms(model.formula[k]) - ActiveTerms(g.formula) + 1
                     /\ g.iters <= TotalTerms(model.formula[k]) + 1
                     /\ last'.ret = 0 => model'.formula[k] = g.formula
       /\ last'.op = "VsopTrim" =>
             \A k \in CoordIdx :
                 /\ model'.formula[k].nseries_calc >= 0
                 /\ model'.formula[k].nseries_calc <= model.formula[k].nseries_calc
                 /\ model'.formula[k] =
                       [model.formula[k] EXCEPT
                           !.nseries_calc = model'.formula[k].nseries_calc]]_vars

\* A truncation at tt1 = tt2 = 0 with a threshold every term fits in: a
\* coordinate of two terms or more lost them all.
C20_Witness ==
    /\ IsTruncate
    /\ last.ret = 0
    /\ last.tt1 = 0
    /\ last.tt2 = 0
    /\ \E k \in CoordIdx :
          /\ k < model.ncoords
          /\ TotalTerms(model.formula[k]) >= 2
          /\ ActiveTerms(model.formula[k]) = 0


\* The read model's counts are the active counts of the written model, totals
\* and calc counts alike.
ReadAsWritten(m, w) ==
    /\ m.version = w.version
    /\ m.body = w.body
    /\ m.ncoords = w.ncoords
    /\ \A k \in CoordIdx : k < w.ncoords =>
          /\ m.formula[k].nseries_total = w.formula[k].nseries_calc
          /\ m.formula[k].nseries_calc = w.formula[k].nseries_calc
          /\ \A s \in SeriesIdx : s < w.formula[k].nseries_calc =>
                /\ m.formula[k].series[s].nterms_total
                      = w.formula[k].series[s].nterms_calc
                /\ m.formula[k].series[s].nterms_calc
                      = w.formula[k].series[s].nterms_calc

\* C21: a model returned by VsopLoadModel, truncated by a successful
\* VsopTruncate, trimmed by VsopTrim and written by VsopWriteTrunc is read
\* back by VsopReadTrunc (no allocation made to fail) with success, with
\* total and calc counts equal to the written model's calc counts, and with
\* the written terms in their order.
C21_TruncRoundTrip ==
    (/\ last.op = "VsopReadTrunc"
     /\ last.fromDisk
     /\ last.oomAt = 0
     /\ written.origin = "VsopLoadModel"
     /\ written.trimmed)
    => /\ last.ret = 0
       /\ ReadAsWritten(model, written.model)
       /\ VsopWriteTrunc(model, heap) = disk.lines


\* C22: a VsopTrim call leaves the value of VsopTermCount as it was, and a
\* second VsopTrim would leave the model as the first left it.
C22_TrimKeepsCount ==
    [][last'.op = "VsopTrim" =>
          /\ VsopTermCount(model') = VsopTermCount(model)
          /\ VsopTrim(model') = model']_vars

\* A VsopTrim after a truncation that dropped two series or more of a
\* coordinate while active terms remain.
C22_Witness ==
    /\ last.op = "VsopTrim"
    /\ last.afterTruncate
    /\ VsopTermCount(model) > 0
    /\ \E k \in CoordIdx :
          /\ k < model.ncoords
          /\ model.formula[k].nseries_calc + 2 <= model.formula[k].nseries_total

=============================================================================
